---- MODULE Spec2Model ----
(***************************************************************************)
(* A model of scripts/script.py: the EB-segment pipeline that reads 271     *)
(* documents (JSON trees), resolves coded EB fields against mapping.json,   *)
(* strips the "@" marker from keys, assembles one record per segment and    *)
(* writes / persists each document's batch.                                 *)
(*                                                                          *)
(* A JSON value is a record [t, n, s, c]: t is its type ("null" for Python's *)
(* None, "num", "str", "list", "dict"), n the number of a num, s the        *)
(* characters of a str, and c the children of a list or dict, each          *)
(* [k |-> key, v |-> value]; the key of a list's element is empty.  A dict  *)
(* keeps its items in insertion order, with distinct keys, as a Python dict *)
(* does; a key is a sequence of characters.                                 *)
(***************************************************************************)
EXTENDS Integers, Sequences, FiniteSets, TLC

VARIABLES
    obj, once, twice, npc,                       \* remove_at_prefix, applied twice
    eb_entry, lookup_cache, policy, mapped, mpc, \* map_eb_codes on one segment
    data, results, timestamp,                    \* process_json_file on one document
    member, eb, dpc,                             \* the navigator's two results
    json_files, file_idx, pc, db_committed, db_pending, db_inserted, hist

normVars == <<obj, once, twice, npc>>
mapVars  == <<eb_entry, policy, mapped, mpc>>
docVars  == <<data, results, timestamp>>
drvVars  == <<json_files, file_idx, pc, db_committed, db_pending, db_inserted, hist>>
navVars  == <<member, eb, dpc>>
vars     == <<normVars, mapVars, lookup_cache, docVars, navVars, drvVars>>

(***************************************************************************)
(* Bounds of the model.                                                     *)
(***************************************************************************)
MaxDepth  == 2    \* nesting depth of the trees given to remove_at_prefix
MaxFields == 3    \* fields of a segment given to map_eb_codes
MaxSegs   == 3    \* elements of a document's EB list
MaxFiles  == 3    \* documents of one run of main

(***************************************************************************)
(* JSON values and the Python operations on them.                           *)
(***************************************************************************)
Item(k, x) == [k |-> k, v |-> x]
None      == [t |-> "null", n |-> 0, s |-> <<>>, c |-> <<>>]
Num(i)    == [t |-> "num",  n |-> i, s |-> <<>>, c |-> <<>>]
Str(cs)   == [t |-> "str",  n |-> 0, s |-> cs,   c |-> <<>>]
List(xs)  == [t |-> "list", n |-> 0, s |-> <<>>,
              c |-> [i \in 1..Len(xs) |-> Item(<<>>, xs[i])]]
Dict(its) == [t |-> "dict", n |-> 0, s |-> <<>>, c |-> its]

\* The elements of a list, in order.
Elems(x) == [i \in 1..Len(x.c) |-> x.c[i].v]

IsDict(x) == x.t = "dict"
IsList(x) == x.t = "list"

\* d[k] = x on a dict's items: an existing key keeps its position and takes
\* the new value, a new key is appended.
SetItem(items, k, x) ==
    IF \E i \in 1..Len(items) : items[i].k = k
    THEN [i \in 1..Len(items) |-> IF items[i].k = k THEN Item(k, x) ELSE items[i]]
    ELSE Append(items, Item(k, x))

\* A dict built by assigning the pairs in order, as a dict comprehension does.
RECURSIVE FromPairs(_)
FromPairs(pairs) ==
    IF pairs = <<>> THEN <<>>
    ELSE LET n == Len(pairs)
         IN SetItem(FromPairs(SubSeq(pairs, 1, n - 1)), pairs[n].k, pairs[n].v)

HasKey(items, k) == \E i \in 1..Len(items) : items[i].k = k
ValueOf(items, k) == items[CHOOSE i \in 1..Len(items) : items[i].k = k].v

\* str.lstrip(c): every leading c is removed.
RECURSIVE lstrip(_, _)
lstrip(s, c) == IF s # <<>> /\ Head(s) = c THEN lstrip(Tail(s), c) ELSE s

\* A plausible slip: only one leading marker is removed (s[1:] when marked).
StripOneMarker(k) == IF k # <<>> /\ Head(k) = "@" THEN Tail(k) ELSE k

\* k.lstrip("@"), the output key of remove_at_prefix and of map_eb_codes.
StripMarker(k) == lstrip(k, "@")

RECURSIVE remove_at_prefix(_)
remove_at_prefix(o) ==
    IF IsDict(o)
    THEN Dict(FromPairs([i \in 1..Len(o.c) |->
                 Item(StripMarker(o.c[i].k), remove_at_prefix(o.c[i].v))]))
    ELSE IF IsList(o)
    THEN List([i \in 1..Len(o.c) |-> remove_at_prefix(o.c[i].v)])
    ELSE o

(***************************************************************************)
(* Trees given to remove_at_prefix: scalars, and up to MaxDepth levels of   *)
(* dicts and lists around them.  Keys carry no, one or two markers, so that *)
(* two keys of one dict can strip to the same key.                          *)
(***************************************************************************)
NormKeys == {<<"a">>, <<"@", "a">>, <<"@", "@", "a">>}
Leaves   == {None, Str(<<"@", "x">>)}

RECURSIVE Trees(_)
Trees(d) ==
    IF d = 0 THEN Leaves
    ELSE LET sub == Trees(d - 1)
         IN sub
            \cup {Dict(<<>>), List(<<>>)}
            \cup {Dict(<<Item(k, s)>>) : k \in NormKeys, s \in sub}
            \cup {Dict(<<Item(p[1], l), Item(p[2], s)>>) :
                     p \in {q \in NormKeys \X NormKeys : q[1] # q[2]},
                     l \in Leaves, s \in sub}
            \cup {List(<<s>>) : s \in sub}
            \cup {List(<<l, s>>) : l \in Leaves, s \in sub}

NormIdle == obj = None /\ once = None /\ twice = None /\ npc = "idle"

NormInit == obj \in Trees(MaxDepth) /\ once = None /\ twice = None /\ npc = "start"

NormalizeOnce ==
    /\ npc = "start"
    /\ once' = remove_at_prefix(obj)
    /\ npc' = "once"
    /\ UNCHANGED <<obj, twice>>

NormalizeTwice ==
    /\ npc = "once"
    /\ twice' = remove_at_prefix(once)
    /\ npc' = "twice"
    /\ UNCHANGED <<obj, once>>

(***************************************************************************)
(* Strings: str(), str.strip(), str.split(), str.join(), str.startswith().  *)
(***************************************************************************)
Digits == <<"0", "1", "2", "3", "4", "5", "6", "7", "8", "9">>

\* str(value) of a scalar: a string is itself, None is "None", a number
\* below 100 its decimal digits.  (Coded fields hold scalars in this model.)
PyStr(x) ==
    IF x.t = "str" THEN x.s
    ELSE IF x.t = "null" THEN <<"N", "o", "n", "e">>
    ELSE LET n == x.n
         IN IF n < 10 THEN <<Digits[n + 1]>>
            ELSE <<Digits[(n \div 10) + 1], Digits[(n % 10) + 1]>>

IsSpace(c) == c \in {" ", "\t", "\n"}

RECURSIVE lstripSpace(_)
lstripSpace(s) == IF s # <<>> /\ IsSpace(Head(s)) THEN lstripSpace(Tail(s)) ELSE s

RECURSIVE rstripSpace(_)
rstripSpace(s) ==
    IF s # <<>> /\ IsSpace(s[Len(s)]) THEN rstripSpace(SubSeq(s, 1, Len(s) - 1)) ELSE s

strip(s) == rstripSpace(lstripSpace(s))

Contains(s, c) == \E i \in 1..Len(s) : s[i] = c

RECURSIVE split(_, _)
split(s, sep) ==
    IF ~Contains(s, sep) THEN <<s>>
    ELSE LET i == CHOOSE j \in 1..Len(s) :
                      s[j] = sep /\ \A h \in 1..(j - 1) : s[h] # sep
         IN <<SubSeq(s, 1, i - 1)>> \o split(SubSeq(s, i + 1, Len(s)), sep)

RECURSIVE join(_, _)
join(sep, parts) ==
    IF parts = <<>> THEN <<>>
    ELSE IF Len(parts) = 1 THEN parts[1]
    ELSE parts[1] \o sep \o join(sep, Tail(parts))

startswith(s, prefix) ==
    Len(s) >= Len(prefix) /\ SubSeq(s, 1, Len(prefix)) = prefix

(***************************************************************************)
(* load_mapping: lookup_cache[field][code] = description, codes as strings. *)
(* The tables a run may have loaded.                                        *)
(***************************************************************************)
EB01 == <<"E", "B", "0", "1">>
EB03 == <<"E", "B", "0", "3">>
Active    == <<"A", "c", "t", "i", "v", "e">>
CoPayment == <<"C", "o", "-", "P", "a", "y", "m", "e", "n", "t">>

ScenarioTable == EB03 :> (<<"1">> :> Active @@ <<"8", "6">> :> CoPayment)
WideTable ==
    EB03 :> (<<"U", "C">> :> <<"U", "n", "i", "t">> @@ <<"8", "6">> :> CoPayment)
    @@ EB01 :> (<<"1">> :> Active)
Tables == {ScenarioTable, WideTable}

(***************************************************************************)
(* map_eb_codes.                                                            *)
(***************************************************************************)
MSG       == <<"M", "S", "G">>
EBPrefix  == <<"@", "E", "B">>
Caret     == "^"
CommaSpace == <<",", " ">>

\* A plausible slip: an unmapped code resolves to nothing instead of itself.
LookupOrEmpty(field_mapping, code) ==
    IF code \in DOMAIN field_mapping THEN field_mapping[code] ELSE <<>>

\* field_mapping.get(code, code)
Lookup(field_mapping, code) ==
    IF code \in DOMAIN field_mapping THEN field_mapping[code] ELSE code

\* One iteration of the loop over eb_entry.items(): the field (key, value)
\* assigned into mapped_entry.
MapField(mapped_entry, cache, key, value) ==
    IF key = MSG
    THEN SetItem(mapped_entry, key,
                 IF IsList(value) THEN value
                 ELSE IF IsDict(value) THEN List(<<value>>)
                 ELSE value)
    ELSE IF startswith(key, EBPrefix)
    THEN LET eb_field  == Tail(key)
             clean_key == lstrip(key, "@")
         IN IF eb_field \notin DOMAIN cache
            THEN SetItem(mapped_entry, clean_key, value)
            ELSE LET field_mapping == cache[eb_field]
                     value_str     == strip(PyStr(value))
                 IN IF Contains(value_str, Caret)
                    THEN LET codes == split(value_str, Caret)
                             mapped_values ==
                                 [i \in 1..Len(codes) |->
                                     Lookup(field_mapping, strip(codes[i]))]
                         IN SetItem(mapped_entry, clean_key,
                                    Str(join(CommaSpace, mapped_values)))
                    ELSE SetItem(mapped_entry, clean_key,
                                 Str(Lookup(field_mapping, value_str)))
    ELSE SetItem(mapped_entry, key, remove_at_prefix(value))

RECURSIVE MapFields(_, _, _)
MapFields(items, cache, n) ==
    IF n = 0 THEN <<>>
    ELSE MapField(MapFields(items, cache, n - 1), cache, items[n].k, items[n].v)

\* map_eb_codes(eb_entry, lookup_cache): it takes no policy argument.
map_eb_codes(entry, cache) ==
    remove_at_prefix(Dict(MapFields(entry.c, cache, Len(entry.c))))

(***************************************************************************)
(* Segments given to map_eb_codes: up to MaxFields fields with distinct     *)
(* keys.  Coded fields hold scalars; the other fields hold any value.       *)
(***************************************************************************)
CodedKeys == {<<"@">> \o EB03, <<"@">> \o EB01}
OtherKeys == {EB03, <<"@", "@">> \o EB03, MSG, <<"@", "x">>}
CodedVals == {Str(<<"U", "C", "^", "8", "6">>), Str(<<" ", "1", " ", "^", "Z", " ">>),
              Str(<<"8", "6">>), Str(<<"^">>), Num(1)}
OtherVals == {Str(<<"Y">>), Dict(<<Item(<<"@", "a">>, Str(<<"Y">>))>>),
              List(<<Dict(<<Item(<<"@", "a">>, None)>>)>>)}
SegItems  == {Item(k, x) : k \in CodedKeys, x \in CodedVals}
             \cup {Item(k, x) : k \in OtherKeys, x \in OtherVals}

DistinctKeys(items) ==
    \A i, j \in 1..Len(items) : i # j => items[i].k # items[j].k

Segments ==
    {Dict(items) : items \in
        {s \in UNION {[1..n -> SegItems] : n \in 0..MaxFields} : DistinctKeys(s)}}

Policies == {"lenient", "strict"}

MapIdle ==
    eb_entry = None /\ policy = "lenient" /\ mapped = None /\ mpc = "idle"

MapInit ==
    /\ eb_entry \in Segments
    /\ lookup_cache \in Tables
    /\ policy \in Policies
    /\ mapped = None
    /\ mpc = "start"

\* The segment resolver runs under the deployment's policy; map_eb_codes has
\* no parameter or setting through which the policy could reach it.
MapSegment ==
    /\ mpc = "start"
    /\ mapped' = map_eb_codes(eb_entry, lookup_cache)
    /\ mpc' = "done"
    /\ UNCHANGED <<eb_entry, policy>>

(***************************************************************************)
(* Subscripting and exceptions.  A call that may raise returns              *)
(* [exc, val]: exc is "none" and val the value, or exc names the exception. *)
(***************************************************************************)
Ok(x)      == [exc |-> "none", val |-> x]
Raise(e)   == [exc |-> e, val |-> None]

\* o[key] with a string key: a dict without the key raises KeyError; a list,
\* a str, a number or None raises TypeError.
Subscript(o, key) ==
    IF IsDict(o)
    THEN IF HasKey(o.c, key) THEN Ok(ValueOf(o.c, key)) ELSE Raise("KeyError")
    ELSE Raise("TypeError")

\* o[path[1]][path[2]]..., stopping at the first subscript that raises.
RECURSIVE GetPath(_, _)
GetPath(o, path) ==
    IF path = <<>> THEN Ok(o)
    ELSE LET r == Subscript(o, Head(path))
         IN IF r.exc # "none" THEN r ELSE GetPath(r.val, Tail(path))

ISA == <<"I", "S", "A">>
GS  == <<"G", "S">>
ST  == <<"S", "T">>
HL  == <<"H", "L">>
EB  == <<"E", "B">>
NM1 == <<"N", "M", "1">>
NM109 == <<"@", "N", "M", "1", "0", "9">>

MemberPath == <<ISA, GS, ST, HL, HL, HL, NM1, NM109>>
HL4Path    == <<ISA, GS, ST, HL, HL, HL, HL, EB>>
HL3Path    == <<ISA, GS, ST, HL, HL, HL, EB>>

\* except KeyError
PatientCaught == {"KeyError"}

\* A plausible slip: the handler of extract_patient_info, copied.
EBListCaughtKeyOnly == {"KeyError"}

\* except (KeyError, TypeError)
EBListCaught == {"KeyError", "TypeError"}

extract_patient_info(d) ==
    LET r == GetPath(d, MemberPath)
    IN IF r.exc = "none" THEN r
       ELSE IF r.exc \in PatientCaught THEN Ok(None)
       ELSE r

get_eb_list(d) ==
    LET r4 == GetPath(d, HL4Path)
    IN IF r4.exc = "none" THEN r4
       ELSE IF r4.exc \notin EBListCaught THEN r4
       ELSE LET r3 == GetPath(d, HL3Path)
            IN IF r3.exc = "none" THEN r3
               ELSE IF r3.exc \in EBListCaught THEN Ok(None)
               ELSE r3

(***************************************************************************)
(* process_json_file.  A file holds a JSON value or text json.load rejects. *)
(***************************************************************************)
Invalid == [t |-> "invalid", n |-> 0, s |-> <<>>, c |-> <<>>]

\* bool(x)
Truthy(x) ==
    IF x.t = "null" THEN FALSE
    ELSE IF x.t = "num" THEN x.n # 0
    ELSE IF x.t = "str" THEN x.s # <<>>
    ELSE x.c # <<>>

\* What iterating x yields: the elements of a list, the characters of a str.
IterElems(x) ==
    IF x.t = "str" THEN [i \in 1..Len(x.s) |-> Str(<<x.s[i]>>)] ELSE Elems(x)

\* The loop over enumerate(eb_list, 1), up to index n.
RECURSIVE BuildRecords(_, _, _, _, _)
BuildRecords(elems, n, member_id, ts, cache) ==
    IF n = 0 THEN <<>>
    ELSE LET prev == BuildRecords(elems, n - 1, member_id, ts, cache)
         IN IF ~IsDict(elems[n]) THEN prev
            ELSE Append(prev, [id          |-> n,
                               member_id   |-> member_id,
                               inserted_at |-> ts,
                               data        |-> map_eb_codes(elems[n], cache)])

\* [results, log]: log is "error" when the except clause printed the error,
\* "nodata" when the warning was printed, "ok" otherwise.
process_json_file(file, cache, ts) ==
    IF file = Invalid THEN [results |-> <<>>, log |-> "error"]
    ELSE LET member_id == extract_patient_info(file)
             found     == get_eb_list(file)
         IN IF member_id.exc # "none" \/ found.exc # "none"
            THEN [results |-> <<>>, log |-> "error"]
            ELSE IF ~Truthy(found.val)
            THEN [results |-> <<>>, log |-> "nodata"]
            ELSE LET eb_list == IF IsDict(found.val) THEN List(<<found.val>>)
                                ELSE found.val
                 IN IF eb_list.t = "num"
                    THEN [results |-> <<>>, log |-> "error"]
                    ELSE LET elems == IterElems(eb_list)
                         IN [results |-> BuildRecords(elems, Len(elems),
                                                      member_id.val, ts, cache),
                             log |-> "ok"]

(***************************************************************************)
(* Documents.  Doc(hl3) has the node hl3 at ISA.GS.ST.HL.HL.HL; hl3 holds   *)
(* an optional NM1, an optional EB and an optional deeper HL.               *)
(***************************************************************************)
Under(keys, x) ==
    LET RECURSIVE W(_)
        W(i) == IF i > Len(keys) THEN x ELSE Dict(<<Item(keys[i], W(i + 1))>>)
    IN W(1)

Doc(hl3) == Under(<<ISA, GS, ST, HL, HL, HL>>, hl3)

SegA == Dict(<<Item(<<"@">> \o EB03, Str(<<"U", "C", "^", "8", "6">>)),
               Item(<<"@">> \o EB01, Str(<<"Y">>))>>)
SegB == Dict(<<Item(<<"@">> \o EB01, Str(<<"N">>))>>)
MemberId == Str(<<"W", "1">>)

SegElems == {SegA, Dict(<<>>), Str(<<"x">>)}
EBLists  == {List(xs) : xs \in UNION {[1..n -> SegElems] : n \in 0..MaxSegs}}
EBVals   == EBLists \cup {SegA, Dict(<<>>), None, Str(<<"E", "B">>), Str(<<>>),
                          Num(0), Num(7)}
EBVals4  == {List(<<SegB>>), SegB, None}

NM1Opts == {<<>>,
            <<Item(NM1, Dict(<<Item(NM109, MemberId)>>))>>,
            <<Item(NM1, Dict(<<>>))>>,
            <<Item(NM1, List(<<Dict(<<Item(NM109, MemberId)>>)>>))>>}
EBOpts  == {<<>>} \cup {<<Item(EB, x)>> : x \in EBVals}
HLOpts  == {<<>>, <<Item(HL, Dict(<<>>))>>, <<Item(HL, List(<<>>))>>}
           \cup {<<Item(HL, Dict(<<Item(EB, x)>>))>> : x \in EBVals4}

Docs ==
    {Doc(Dict(a \o b \o c)) : a \in NM1Opts, b \in EBOpts, c \in HLOpts}
    \cup {Invalid, None, List(<<>>), Dict(<<>>), Dict(<<Item(ISA, List(<<>>))>>),
          Under(<<ISA, GS, ST, HL>>, Str(<<"x">>))}

Times == {1, 2}

DocIdle == data = None /\ results = <<>> /\ timestamp = 0
NavIdle == member = Ok(None) /\ eb = Ok(None) /\ dpc = "idle"

DocInit ==
    /\ data \in Docs
    /\ results = <<>>
    /\ timestamp = 0
    /\ member = Ok(None)
    /\ eb = Ok(None)
    /\ dpc = "start"

\* extract_patient_info(data), on a parsed document
ExtractPatientInfo ==
    /\ dpc = "start"
    /\ data # Invalid
    /\ member' = extract_patient_info(data)
    /\ dpc' = "member"
    /\ UNCHANGED <<docVars, eb>>

\* get_eb_list(data), on a parsed document
GetEBList ==
    /\ dpc = "member"
    /\ eb' = get_eb_list(data)
    /\ dpc' = "eb"
    /\ UNCHANGED <<docVars, member>>

\* process_json_file(file_path, lookup_cache)
ProcessDocument ==
    /\ dpc = "eb" \/ (dpc = "start" /\ data = Invalid)
    /\ \E ts \in Times :
          /\ timestamp' = ts
          /\ results' = process_json_file(data, lookup_cache, ts).results
    /\ dpc' = "done"
    /\ UNCHANGED <<data, member, eb>>

(***************************************************************************)
(* The database behind conn: the rows committed to eb_blocks and the rows   *)
(* of the open transaction.  cursor.execute of a row, and conn.commit, may  *)
(* fail; conn.rollback discards the open transaction and returns.           *)
(***************************************************************************)
Row(f, member_id, record) == [file |-> f, member_id |-> member_id, data |-> record.data]

\* A plausible slip: the except clause without conn.rollback().
KeepPending(pending) == pending

\* conn.rollback()
Rollback(pending) == <<>>

\* insert_into_db(conn, member_id, data_records) for the document f, conn
\* being connected.  fail = 0: no statement fails; fail = i <= len: the i-th
\* execute raises; fail = len + 1: commit raises.
\* A plausible slip: the same without the try/except around the statements.
insert_into_db_uncaught(committed, pending, f, member_id, data_records, fail) ==
    IF data_records = <<>>
    THEN [committed |-> committed, pending |-> pending, ret |-> 0, raised |-> FALSE]
    ELSE LET len      == Len(data_records)
             executed == IF fail \in 1..len THEN fail - 1 ELSE len
             open     == pending \o [i \in 1..executed |->
                                        Row(f, member_id, data_records[i])]
         IN IF fail = 0
            THEN [committed |-> committed \o open, pending |-> <<>>,
                  ret |-> len, raised |-> FALSE]
            ELSE [committed |-> committed, pending |-> open,
                  ret |-> 0, raised |-> TRUE]

insert_into_db(committed, pending, f, member_id, data_records, fail) ==
    IF data_records = <<>>
    THEN [committed |-> committed, pending |-> pending, ret |-> 0, raised |-> FALSE]
    ELSE LET len      == Len(data_records)
             executed == IF fail \in 1..len THEN fail - 1 ELSE len
             open     == pending \o [i \in 1..executed |->
                                        Row(f, member_id, data_records[i])]
         IN IF fail = 0
            THEN [committed |-> committed \o open, pending |-> <<>>,
                  ret |-> len, raised |-> FALSE]
            ELSE [committed |-> committed, pending |-> Rollback(open),
                  ret |-> 0, raised |-> FALSE]

(***************************************************************************)
(* main: the loop over json_files.  pc is the position in the loop body:    *)
(* "loop" at the for statement, "got" after process_json_file returned,     *)
(* "inserted" after insert_into_db returned, "done" after the loop, and     *)
(* "crashed" when an exception left main.  hist[f] records, for the f-th    *)
(* file, what the run did with it.                                          *)
(***************************************************************************)
DriverDocs ==
    {Invalid,
     Doc(Dict(<<>>)),
     Dict(<<Item(ISA, List(<<>>))>>),
     Doc(Dict(<<Item(HL, List(<<>>))>>)),
     Doc(Dict(<<Item(NM1, List(<<>>)), Item(EB, List(<<SegA>>))>>)),
     Doc(Dict(<<Item(EB, List(<<Str(<<"x">>)>>))>>)),
     Doc(Dict(<<Item(EB, SegB)>>)),
     Doc(Dict(<<Item(NM1, Dict(<<Item(NM109, MemberId)>>)),
                Item(EB, List(<<SegA, Str(<<"x">>), SegB>>))>>))}

NoHist == [log |-> "none", len |-> 0, calls |-> 0, fail |-> 0, ret |-> 0,
           written |-> FALSE]

DrvIdle ==
    /\ json_files = 0 /\ file_idx = 0 /\ pc = "idle"
    /\ db_committed = <<>> /\ db_pending = <<>> /\ db_inserted = 0
    /\ hist = <<>>

\* main at its for statement: the connection is made, the mapping loaded, and
\* ../data lists json_files files.
DrvInit ==
    /\ json_files \in 0..MaxFiles
    /\ file_idx = 1
    /\ pc = "loop"
    /\ db_committed = <<>>
    /\ db_pending = <<>>
    /\ db_inserted = 0
    /\ hist = [f \in 1..json_files |-> NoHist]
    /\ data = None
    /\ results = <<>>
    /\ timestamp = 0

\* A plausible slip: the output is written whatever the batch holds.
AlwaysPersist(rs) == TRUE

\* if results:
HasRecords(rs) == rs # <<>>

\* results = process_json_file(file_path, lookup_cache)
Process ==
    /\ pc = "loop"
    /\ file_idx <= json_files
    /\ \E file \in DriverDocs, ts \in Times :
          LET r == process_json_file(file, lookup_cache, ts)
          IN /\ data' = file
             /\ timestamp' = ts
             /\ results' = r.results
             /\ hist' = [hist EXCEPT ![file_idx].log = r.log,
                                     ![file_idx].len = Len(r.results)]
    /\ pc' = "got"
    /\ UNCHANGED <<json_files, file_idx, db_committed, db_pending, db_inserted>>

\* else: print("No data extracted ...")
Skip ==
    /\ pc = "got"
    /\ ~HasRecords(results)
    /\ file_idx' = file_idx + 1
    /\ pc' = "loop"
    /\ UNCHANGED <<docVars, json_files, db_committed, db_pending, db_inserted, hist>>

\* db_inserted = insert_into_db(conn, member_id, results)
Insert ==
    /\ pc = "got"
    /\ HasRecords(results)
    /\ \E fail \in 0..(Len(results) + 1) :
          LET member_id == IF results = <<>> THEN None ELSE results[1].member_id
              r == insert_into_db(db_committed, db_pending, file_idx, member_id,
                                  results, fail)
          IN /\ db_committed' = r.committed
             /\ db_pending' = r.pending
             /\ db_inserted' = r.ret
             /\ hist' = [hist EXCEPT ![file_idx].calls = @ + 1,
                                     ![file_idx].fail = fail,
                                     ![file_idx].ret = r.ret]
             /\ pc' = IF r.raised THEN "crashed" ELSE "inserted"
    /\ UNCHANGED <<docVars, json_files, file_idx>>

\* json.dump(results, f, indent=2), then the next file
Write ==
    /\ pc = "inserted"
    /\ hist' = [hist EXCEPT ![file_idx].written = TRUE]
    /\ file_idx' = file_idx + 1
    /\ pc' = "loop"
    /\ UNCHANGED <<docVars, json_files, db_committed, db_pending, db_inserted>>

\* the loop is over: conn.close()
Finish ==
    /\ pc = "loop"
    /\ file_idx > json_files
    /\ pc' = "done"
    /\ UNCHANGED <<docVars, json_files, file_idx, db_committed, db_pending,
                   db_inserted, hist>>

(***************************************************************************)
(* The specifications.  Spec is a run of main; SpecDoc, SpecMap and         *)
(* SpecNorm apply process_json_file, map_eb_codes and remove_at_prefix to   *)
(* every input of their bounded domains.                                    *)
(***************************************************************************)
Init ==
    /\ DrvInit
    /\ lookup_cache = ScenarioTable
    /\ NavIdle
    /\ NormIdle
    /\ MapIdle

Next ==
    \/ Process /\ UNCHANGED <<normVars, mapVars, lookup_cache, navVars>>
    \/ Skip    /\ UNCHANGED <<normVars, mapVars, lookup_cache, navVars>>
    \/ Insert  /\ UNCHANGED <<normVars, mapVars, lookup_cache, navVars>>
    \/ Write   /\ UNCHANGED <<normVars, mapVars, lookup_cache, navVars>>
    \/ Finish  /\ UNCHANGED <<normVars, mapVars, lookup_cache, navVars>>

Spec == Init /\ [][Next]_vars

InitDoc ==
    /\ DocInit
    /\ lookup_cache = ScenarioTable
    /\ DrvIdle
    /\ NormIdle
    /\ MapIdle

NextDoc ==
    \/ ExtractPatientInfo /\ UNCHANGED <<normVars, mapVars, lookup_cache, drvVars>>
    \/ GetEBList          /\ UNCHANGED <<normVars, mapVars, lookup_cache, drvVars>>
    \/ ProcessDocument    /\ UNCHANGED <<normVars, mapVars, lookup_cache, drvVars>>

SpecDoc == InitDoc /\ [][NextDoc]_vars

InitMap ==
    /\ MapInit
    /\ DocIdle
    /\ NavIdle
    /\ DrvIdle
    /\ NormIdle

NextMap == MapSegment /\ UNCHANGED <<normVars, lookup_cache, docVars, navVars, drvVars>>

SpecMap == InitMap /\ [][NextMap]_vars

InitNorm ==
    /\ NormInit
    /\ MapIdle
    /\ lookup_cache = ScenarioTable
    /\ DocIdle
    /\ NavIdle
    /\ DrvIdle

NextNorm ==
    \/ NormalizeOnce  /\ UNCHANGED <<mapVars, lookup_cache, docVars, navVars, drvVars>>
    \/ NormalizeTwice /\ UNCHANGED <<mapVars, lookup_cache, docVars, navVars, drvVars>>

SpecNorm == InitNorm /\ [][NextNorm]_vars

(***************************************************************************)
(* Properties.                                                              *)
(***************************************************************************)

\* What the properties say of a document, stated on the tree itself: the
\* chain of keys can be followed from o to its end through mappings only.
RECURSIVE Resolves(_, _)
Resolves(o, path) ==
    \/ path = <<>>
    \/ /\ IsDict(o)
       /\ \E i \in 1..Len(o.c) :
             o.c[i].k = Head(path) /\ Resolves(o.c[i].v, Tail(path))

\* The value at the end of a chain that resolves.
RECURSIVE Target(_, _)
Target(o, path) ==
    IF path = <<>> THEN o
    ELSE Target(o.c[CHOOSE i \in 1..Len(o.c) : o.c[i].k = Head(path)].v, Tail(path))

\* C5: remove_at_prefix is idempotent: applied to its own result, for every
\* tree of mappings, sequences and scalars (keys with several markers
\* included), it returns that result unchanged.
C5_Idempotent == npc = "twice" => twice = once

C5_Witness ==
    /\ npc = "twice"
    /\ obj = Dict(<<Item(<<"@", "@", "a">>,
                         Dict(<<Item(<<"@", "a">>, Str(<<"@", "x">>))>>))>>)
    /\ once # obj
    /\ twice = once

\* The i-th field of the resolved segment is a coded field.
Coded(i) == startswith(eb_entry.c[i].k, EBPrefix)

\* Another field of the segment has the same name once the markers are
\* stripped, so that the two fields share one output key.
Shadowed(i) ==
    \E j \in 1..Len(eb_entry.c) :
        j # i /\ lstrip(eb_entry.c[j].k, "@") = lstrip(eb_entry.c[i].k, "@")

\* The i-th field is a coded field with an entry in the table and a
\* composite value.
Composite(i) ==
    /\ Coded(i)
    /\ Tail(eb_entry.c[i].k) \in DOMAIN lookup_cache
    /\ Contains(PyStr(eb_entry.c[i].v), Caret)

\* The trimmed parts of the i-th field's value.
Parts(i) ==
    LET raw == split(strip(PyStr(eb_entry.c[i].v)), Caret)
    IN [h \in 1..Len(raw) |-> strip(raw[h])]

\* One item per part: its description when the table has the part, the
\* part itself when not.
LenientItems(i) ==
    LET table == lookup_cache[Tail(eb_entry.c[i].k)]
    IN [h \in 1..Len(Parts(i)) |->
           IF Parts(i)[h] \in DOMAIN table THEN table[Parts(i)[h]] ELSE Parts(i)[h]]

OutputIs(i, x) ==
    /\ HasKey(mapped.c, Tail(eb_entry.c[i].k))
    /\ ValueOf(mapped.c, Tail(eb_entry.c[i].k)) = x

\* C2 as stated: under the lenient policy every composite coded field with a
\* table entry is output as one item per trimmed part, in order, joined with
\* ", ": the description of a part that resolves, the raw part otherwise.
C2_AsStated ==
    (mpc = "done" /\ policy = "lenient") =>
        \A i \in 1..Len(eb_entry.c) :
            Composite(i) => OutputIs(i, Str(join(CommaSpace, LenientItems(i))))

\* C2, amended: the same, for every such field that shares its output key
\* with no other field of the segment (no other field has the same name once
\* the leading markers are stripped).
C2_LenientComposite ==
    (mpc = "done" /\ policy = "lenient") =>
        \A i \in 1..Len(eb_entry.c) :
            (Composite(i) /\ ~Shadowed(i)) =>
                OutputIs(i, Str(join(CommaSpace, LenientItems(i))))

C2_Witness ==
    /\ mpc = "done"
    /\ policy = "lenient"
    /\ lookup_cache = ScenarioTable
    /\ Len(eb_entry.c) = 2
    /\ eb_entry.c[1] = Item(<<"@">> \o EB03, Str(<<"U", "C", "^", "8", "6">>))
    /\ eb_entry.c[2] = Item(<<"@", "x">>, Str(<<"Y">>))
    /\ Composite(1) /\ ~Shadowed(1)
    /\ mapped = Dict(<<Item(EB03, Str(<<"U", "C", ",", " ">> \o CoPayment)),
                       Item(<<"x">>, Str(<<"Y">>))>>)

\* What the strict policy asks of the i-th (coded) field: null for a field
\* without table entry, the descriptions of the parts that resolve joined
\* with ", " (null when none resolves) for a composite value, and the
\* description or null for a single code.
StrictValue(i) ==
    LET field == Tail(eb_entry.c[i].k)
    IN IF field \notin DOMAIN lookup_cache THEN None
       ELSE LET table == lookup_cache[field]
                Known(p) == p \in DOMAIN table
                known == SelectSeq(Parts(i), Known)
            IN IF known = <<>> THEN None
               ELSE Str(join(CommaSpace, [h \in 1..Len(known) |-> table[known[h]]]))

\* C3: the unmapped-code policy is a mode of the resolver, and when the mode
\* is strict every coded field is output with its unresolved parts dropped,
\* null when nothing of it resolves.
C3_StrictPolicy ==
    (mpc = "done" /\ policy = "strict") =>
        \A i \in 1..Len(eb_entry.c) :
            (Coded(i) /\ ~Shadowed(i)) => OutputIs(i, StrictValue(i))

\* C4: get_eb_list never raises; it returns the value at the four-HL path
\* when that path resolves, else the value at the three-HL path when that
\* one resolves, else null.
C4_StructuralFallback ==
    dpc \in {"eb", "done"} /\ data # Invalid =>
        /\ eb.exc = "none"
        /\ eb.val = IF Resolves(data, HL4Path) THEN Target(data, HL4Path)
                    ELSE IF Resolves(data, HL3Path) THEN Target(data, HL3Path)
                    ELSE None

\* The deeper path breaks on a link of the wrong shape (HL is a list) and the
\* shallower path gives the segment list.
C4_Witness ==
    /\ dpc = "done"
    /\ Resolves(data, <<ISA, GS, ST, HL, HL, HL, HL>>)
    /\ IsList(Target(data, <<ISA, GS, ST, HL, HL, HL, HL>>))
    /\ Resolves(data, HL3Path)
    /\ eb = Ok(List(<<SegA, Str(<<"x">>)>>))

\* The segments of the document: the elements of the list get_eb_list
\* returned, a single mapping counting as a list of one.
Segs == IF IsDict(eb.val) THEN <<eb.val>>
        ELSE IF IsList(eb.val) THEN Elems(eb.val)
        ELSE <<>>

IsMapping(x) == IsDict(x)
Mappings == SelectSeq(Segs, IsMapping)

\* C1: a document whose segment list is a list with M mappings among its
\* elements gives exactly M records, in source order, with the ids 1..M.
\* (Stated for the documents whose member id extraction returns, so that
\* the numbering alone decides it.)
C1_DenseIds ==
    (dpc = "done" /\ data # Invalid /\ member.exc = "none" /\ IsList(eb.val)) =>
        /\ Len(results) = Len(Mappings)
        /\ \A j \in 1..Len(results) :
              /\ results[j].id = j
              /\ results[j].data = map_eb_codes(Mappings[j], lookup_cache)

\* C6: a segment-list path that resolves to a single mapping gives a batch of
\* exactly one record, with id 1.  (Stated for the mappings that have a
\* field; the mapping without fields gives an empty batch as well.)
C6_SingleMapping ==
    (dpc = "done" /\ data # Invalid /\ IsDict(eb.val) /\ eb.val.c # <<>>) =>
        /\ Len(results) = 1
        /\ results[1].id = 1

\* C9: when the member-id chain cannot be followed to its end,
\* extract_patient_info returns null without raising, and the batch still
\* holds one record per mapping of the (non-empty) segment list, each with a
\* null member_id.
C9_MissingMemberId ==
    (dpc = "done" /\ data # Invalid /\ ~Resolves(data, MemberPath)) =>
        /\ member = Ok(None)
        /\ Truthy(eb.val) => Len(results) = Len(Mappings)
        /\ \A j \in 1..Len(results) : results[j].member_id = None

RowsOf(f) == Cardinality({i \in 1..Len(db_committed) : db_committed[i].file = f})

\* C8: insert_into_db is called at most once per document, and once it has
\* returned either all rows of the batch are committed and the count returned
\* is the batch length, or none is and the count is 0; no row stays in an
\* open transaction, so the rows of a document never change afterwards.
C8_AtomicPerDocument ==
    /\ db_pending = <<>>
    /\ \A f \in 1..json_files :
          /\ hist[f].calls <= 1
          /\ hist[f].ret \in {0, hist[f].len}
          /\ RowsOf(f) = hist[f].ret
          /\ hist[f].calls = 0 => hist[f].ret = 0
          /\ hist[f].fail # 0 => hist[f].ret = 0

\* The second document's insert fails on its last row after the first
\* document's batch was committed.
C8_Witness ==
    /\ pc = "done"
    /\ json_files = 2
    /\ hist[1].len = 2 /\ hist[1].ret = 2 /\ RowsOf(1) = 2
    /\ hist[2].len = 2 /\ hist[2].fail = 2 /\ hist[2].ret = 0 /\ RowsOf(2) = 0

====
